---- MODULE Spec2Model ----
(***************************************************************************)
(* Model of the Quick Link Popup plugin (src/main.ts).                     *)
(*                                                                         *)
(*   PositionCalculator  - pure geometry, checked under SpecCalc           *)
(*   SelectionHandler    - the [[...]] rewrite, checked under SpecLink     *)
(*   PopupManager        - the popup element's lifecycle, under SpecPM     *)
(*   TextSelectionLinkerPlugin - the controller, checked under Spec        *)
(*                                                                         *)
(* Rectangles are in CSS pixels.  The horizontal centre of the popup is    *)
(* selLeft + selWidth/2 - popupWidth/2, which is a half-integer for        *)
(* integer inputs; every computed `left` is therefore kept doubled, in the *)
(* field left2 = 2 * left, so that the arithmetic stays exact.             *)
(***************************************************************************)
EXTENDS Integers, Sequences, FiniteSets, TLC

VARIABLES
    \* PositionCalculator's inputs and result
    selectionRect,  \* rectangle of window.getSelection()'s range, None when rangeCount = 0
    popupRect,      \* layout box (width, height) of an attached popup element
    innerWidth,     \* window.innerWidth
    innerHeight,    \* window.innerHeight
    returned,       \* last value returned by PositionCalculator.calculate, or None
    \* PopupManager and the document
    popup,          \* PopupManager.popup: the held element, NoElem when null
    attached,       \* the popup elements that are children of document.body
    elems,          \* per element: the 'show' class and the applied position
    rafQueue,       \* callbacks registered with requestAnimationFrame, in order
    \* SelectionHandler and the host's editors
    editor,         \* SelectionHandler.editor, NoEditor when null
    activeView,     \* editor of workspace.getActiveViewOfType(MarkdownView), or NoEditor
    editorSel,      \* per editor: editor.getSelection()
    replaced,       \* <<>>, or <<editor, selected text, text>> of the last editor.replaceSelection(text)
    \* TextSelectionLinkerPlugin
    isProcessing,
    timers,         \* number of pending setTimeout(checkSelection) callbacks
    loaded,         \* the plugin's DOM and workspace listeners are registered
    pendingEvents,  \* DOM events queued for dispatch to the plugin's listeners
    \* history
    dismissed       \* Escape or a view change removed the popup and no pointer or
                    \* shift+arrow release came since (recorded under SpecDismiss only)

calcVars == <<selectionRect, popupRect, innerWidth, innerHeight, returned>>
pmVars == <<popup, attached, elems, rafQueue>>
editorVars == <<editor, activeView, editorSel, replaced>>
pluginVars == <<isProcessing, timers, loaded, pendingEvents, dismissed>>
vars == <<calcVars, pmVars, editorVars, pluginVars>>

\* the absent value (null); a record, so that it compares with records
None == [none |-> TRUE]

\* ---------------------------------------------------------------------
\* PopupConfig
\* ---------------------------------------------------------------------
TAIL_SIZE == 6
POPUP_MARGIN == 10
TOTAL_OFFSET == TAIL_SIZE + POPUP_MARGIN
SCREEN_MARGIN == 10

Max(a, b) == IF a >= b THEN a ELSE b
Min(a, b) == IF a <= b THEN a ELSE b

\* DOMRect derived edges
Bottom(r) == r.top + r.height
Right(r) == r.left + r.width

\* ---------------------------------------------------------------------
\* PositionCalculator
\* ---------------------------------------------------------------------

\* the clamp with the two bounds applied in the other order
clampToHorizontalBoundsUpperLast(left2, popupWidth) ==
    LET minLeft == SCREEN_MARGIN
        maxLeft == innerWidth - popupWidth - SCREEN_MARGIN
    IN  Min(Max(2 * minLeft, left2), 2 * maxLeft)

\* Math.max(minLeft, Math.min(left, maxLeft)), doubled
clampToHorizontalBounds(left2, popupWidth) ==
    LET minLeft == SCREEN_MARGIN
        maxLeft == innerWidth - popupWidth - SCREEN_MARGIN
    IN  Max(2 * minLeft, Min(left2, 2 * maxLeft))

calculateHorizontalPosition(sel, pop) ==
    LET centerAligned2 == 2 * sel.left + sel.width - pop.width
    IN  clampToHorizontalBounds(centerAligned2, pop.width)

\* the vertical placement that tries below the selection first
calculateVerticalPositionBelowFirst(sel, pop) ==
    LET topPlacement == sel.top - pop.height - TOTAL_OFFSET
        bottomPlacement == Bottom(sel) + TOTAL_OFFSET
    IN  IF bottomPlacement + pop.height <= innerHeight - SCREEN_MARGIN
        THEN [top |-> bottomPlacement, placement |-> "bottom"]
        ELSE IF topPlacement >= SCREEN_MARGIN
        THEN [top |-> topPlacement, placement |-> "top"]
        ELSE IF sel.top - SCREEN_MARGIN >= innerHeight - Bottom(sel) - SCREEN_MARGIN
        THEN [top |-> Max(SCREEN_MARGIN, topPlacement), placement |-> "top"]
        ELSE [top |-> Min(innerHeight - pop.height - SCREEN_MARGIN, bottomPlacement),
              placement |-> "bottom"]

\* the vertical placement whose last branch does not clamp into the viewport
calculateVerticalPositionNoClamp(sel, pop) ==
    LET topPlacement == sel.top - pop.height - TOTAL_OFFSET
        bottomPlacement == Bottom(sel) + TOTAL_OFFSET
    IN  IF topPlacement >= SCREEN_MARGIN
        THEN [top |-> topPlacement, placement |-> "top"]
        ELSE IF bottomPlacement + pop.height <= innerHeight - SCREEN_MARGIN
        THEN [top |-> bottomPlacement, placement |-> "bottom"]
        ELSE IF sel.top - SCREEN_MARGIN >= innerHeight - Bottom(sel) - SCREEN_MARGIN
        THEN [top |-> topPlacement, placement |-> "top"]
        ELSE [top |-> bottomPlacement, placement |-> "bottom"]

\* the vertical placement whose last branch gives a tie to the side below
calculateVerticalPositionTieBelow(sel, pop) ==
    LET topPlacement == sel.top - pop.height - TOTAL_OFFSET
        bottomPlacement == Bottom(sel) + TOTAL_OFFSET
    IN  IF topPlacement >= SCREEN_MARGIN
        THEN [top |-> topPlacement, placement |-> "top"]
        ELSE IF bottomPlacement + pop.height <= innerHeight - SCREEN_MARGIN
        THEN [top |-> bottomPlacement, placement |-> "bottom"]
        ELSE IF sel.top - SCREEN_MARGIN > innerHeight - Bottom(sel) - SCREEN_MARGIN
        THEN [top |-> Max(SCREEN_MARGIN, topPlacement), placement |-> "top"]
        ELSE [top |-> Min(innerHeight - pop.height - SCREEN_MARGIN, bottomPlacement),
              placement |-> "bottom"]

calculateVerticalPosition(sel, pop) ==
    LET viewportHeight == innerHeight
        selectionTop == sel.top
        selectionBottom == Bottom(sel)
        topPlacement == selectionTop - pop.height - TOTAL_OFFSET
        bottomPlacement == selectionBottom + TOTAL_OFFSET
        popupBottom == bottomPlacement + pop.height
        spaceAbove == selectionTop - SCREEN_MARGIN
        spaceBelow == viewportHeight - selectionBottom - SCREEN_MARGIN
    IN  IF topPlacement >= SCREEN_MARGIN
        THEN [top |-> topPlacement, placement |-> "top"]
        ELSE IF popupBottom <= viewportHeight - SCREEN_MARGIN
        THEN [top |-> bottomPlacement, placement |-> "bottom"]
        ELSE IF spaceAbove >= spaceBelow
        THEN [top |-> Max(SCREEN_MARGIN, topPlacement), placement |-> "top"]
        ELSE [top |-> Min(viewportHeight - pop.height - SCREEN_MARGIN, bottomPlacement),
              placement |-> "bottom"]

hasCollision(sel, pos, pop) ==
    LET popupTop == pos.top
        popupBottom == pos.top + pop.height
        popupLeft2 == pos.left2
        popupRight2 == pos.left2 + 2 * pop.width
        verticalOverlap == ~(popupBottom < sel.top \/ popupTop > Bottom(sel))
        horizontalOverlap == ~(popupRight2 < 2 * sel.left \/ popupLeft2 > 2 * Right(sel))
    IN  verticalOverlap /\ horizontalOverlap

forceSafePosition(sel, pop) ==
    LET viewportHeight == innerHeight
        top0 == sel.top - pop.height - TOTAL_OFFSET
        top1 == Bottom(sel) + TOTAL_OFFSET
        top2 == Max(SCREEN_MARGIN, viewportHeight - pop.height - SCREEN_MARGIN)
        left2 == calculateHorizontalPosition(sel, pop)
    IN  IF top0 < SCREEN_MARGIN
        THEN IF top1 + pop.height > viewportHeight - SCREEN_MARGIN
             THEN [top |-> top2, left2 |-> left2, placement |-> "bottom"]
             ELSE [top |-> top1, left2 |-> left2, placement |-> "bottom"]
        ELSE [top |-> top0, left2 |-> left2, placement |-> "top"]

\* the placement before the final collision check
firstPosition(sel, pop) ==
    LET v == calculateVerticalPosition(sel, pop)
    IN  [top |-> v.top, left2 |-> calculateHorizontalPosition(sel, pop),
         placement |-> v.placement]

calculate(sel, pop) ==
    IF hasCollision(sel, firstPosition(sel, pop), pop)
    THEN forceSafePosition(sel, pop)
    ELSE firstPosition(sel, pop)

\* ---------------------------------------------------------------------
\* PopupManager.  Its methods are functions of pm, the manager's field
\* together with the part of the document and of the frame queue it acts on.
\* ---------------------------------------------------------------------
MaxElems == 3
Ids == 1 .. MaxElems
NoElem == 0

\* document.createElement('div'): no 'show' class, no position applied
FreshElem == [show |-> FALSE, pos |-> None]

PM == [popup |-> popup, attached |-> attached, elems |-> elems, raf |-> rafQueue]

\* identities not in use by a reachable element
FreeIds(pm) == Ids \ (pm.attached \cup {pm.popup})
NewElem(pm) == CHOOSE i \in FreeIds(pm) : \A j \in FreeIds(pm) : i <= j

create(pm) ==
    [pm EXCEPT !.popup = NewElem(pm), !.elems[NewElem(pm)] = FreshElem]

show(pm) ==
    IF pm.popup = NoElem THEN pm
    ELSE [pm EXCEPT !.attached = @ \cup {pm.popup},
                    !.raf = Append(@, "addShowClass")]

\* hide that drops the reference and leaves the element in the document
hideNoRemove(pm) ==
    IF pm.popup # NoElem THEN [pm EXCEPT !.popup = NoElem] ELSE pm

hide(pm) ==
    IF pm.popup # NoElem
    THEN [pm EXCEPT !.attached = @ \ {pm.popup}, !.popup = NoElem]
    ELSE pm

position(pm, pos) ==
    IF pm.popup = NoElem THEN pm
    ELSE [pm EXCEPT !.elems[pm.popup].pos = pos]

getElement(pm) == pm.popup

exists(pm) == pm.popup # NoElem

\* the frame callback of show(): this.popup?.classList.add('show')
addShowClass(pm) ==
    IF pm.popup = NoElem THEN pm
    ELSE [pm EXCEPT !.elems[pm.popup].show = TRUE]

\* popupElement.getBoundingClientRect(): an element outside the document has no box
elementRect(pm) ==
    IF pm.popup \in pm.attached THEN popupRect ELSE [width |-> 0, height |-> 0]

\* elements that are neither held nor attached are unreachable: forget their fields
Collect(pm) ==
    [pm EXCEPT !.elems = [i \in Ids |->
        IF i \in pm.attached \cup {pm.popup} THEN pm.elems[i] ELSE FreshElem]]

SetPM(pm) ==
    /\ popup' = pm.popup
    /\ attached' = pm.attached
    /\ elems' = Collect(pm).elems
    /\ rafQueue' = pm.raf

\* ---------------------------------------------------------------------
\* SelectionHandler.  Texts are sequences of one-character strings.
\* ---------------------------------------------------------------------
Editors == {"e1", "e2"}
NoEditor == "null"

\* this.editor?.getSelection() || ''
getSelectedText(ed) == IF ed = NoEditor THEN <<>> ELSE editorSel[ed]

IsSpace(c) == c = " "

RECURSIVE TrimStart(_)
TrimStart(s) ==
    IF s # <<>> /\ IsSpace(Head(s)) THEN TrimStart(Tail(s)) ELSE s

RECURSIVE TrimEnd(_)
TrimEnd(s) ==
    IF s # <<>> /\ IsSpace(s[Len(s)]) THEN TrimEnd(SubSeq(s, 1, Len(s) - 1)) ELSE s

\* String.prototype.trim
Trim(s) == TrimEnd(TrimStart(s))

hasValidSelection(ed) == Len(Trim(getSelectedText(ed))) > 0

\* s.replace(/cc/g, ''): every non-overlapping occurrence of cc, leftmost first
RECURSIVE RemovePairs(_, _)
RemovePairs(s, c) ==
    IF Len(s) < 2 THEN s
    ELSE IF s[1] = c /\ s[2] = c THEN RemovePairs(SubSeq(s, 3, Len(s)), c)
    ELSE <<s[1]>> \o RemovePairs(Tail(s), c)

\* s.replace(/c/g, '')
RemoveChar(s, c) == SelectSeq(s, LAMBDA x : x # c)

\* the wrap in one bracket on each side
linkedTextSingleWrap(selectedText) ==
    <<"[">> \o RemoveChar(RemoveChar(selectedText, "["), "]") \o <<"]">>

\* the bracket deletion that ignores single brackets
linkedTextPairsOnly(selectedText) ==
    <<"[", "[">> \o RemovePairs(RemovePairs(selectedText, "["), "]") \o <<"]", "]">>

\* the value of linkedText in convertToLink
linkedText(selectedText) ==
    LET step1 == RemovePairs(RemovePairs(selectedText, "["), "]")
        step2 == RemoveChar(RemoveChar(step1, "["), "]")
    IN  <<"[", "[">> \o step2 \o <<"]", "]">>

\* convertToLink().  editor.replaceSelection(text) replaces the selected range by
\* text; the host decides whether the inserted text stays selected or the
\* selection collapses behind it.
convertToLink ==
    IF editor = NoEditor \/ getSelectedText(editor) = <<>>
    THEN UNCHANGED <<editorSel, replaced>>
    ELSE LET text == linkedText(getSelectedText(editor))
         IN  /\ replaced' = <<editor, getSelectedText(editor), text>>
             /\ \E after \in {<<>>, text} :
                    editorSel' = [editorSel EXCEPT ![editor] = after]

getSelectionRect == selectionRect

\* ---------------------------------------------------------------------
\* Initial values of each component
\* ---------------------------------------------------------------------
CalcIdle ==
    /\ selectionRect = None
    /\ popupRect = [width |-> 0, height |-> 0]
    /\ innerWidth = 50
    /\ innerHeight = 40
    /\ returned = None

PMInit ==
    /\ popup = NoElem
    /\ attached = {}
    /\ elems = [i \in Ids |-> FreshElem]
    /\ rafQueue = <<>>

EditorInit ==
    /\ editor = NoEditor
    /\ activeView = NoEditor
    /\ editorSel = [e \in Editors |-> <<>>]
    /\ replaced = <<>>

PluginInit ==
    /\ isProcessing = FALSE
    /\ timers = 0
    /\ loaded = TRUE
    /\ pendingEvents = {}
    /\ dismissed = FALSE

\* ---------------------------------------------------------------------
\* SpecCalc: PositionCalculator.calculate on bounded inputs
\* ---------------------------------------------------------------------
MaxTop == 75        \* selection tops range over -MaxAbove .. MaxTop
MaxAbove == 30
MaxLeft == 60       \* selection lefts: the multiples of 20 in -MaxLeft .. MaxLeft, and both ends

SelTops == (0 - MaxAbove) .. MaxTop
SelHeights == {0, 4, 50}
SelLefts == {l \in (0 - MaxLeft) .. MaxLeft : l % 20 = 0 \/ l = MaxLeft \/ l = 0 - MaxLeft}
SelWidths == {0, 5, 30}
PopupHeights == {0, 10, 30}
PopupWidths == {0, 11, 40}
ViewportHeights == {40, 60}
ViewportWidths == {50}

\* the scenarios of the specification's section 8
ScenarioSelRects ==
    {[top |-> 500, left |-> 100, width |-> 80, height |-> 20],
     [top |-> 15, left |-> 100, width |-> 80, height |-> 20]}
ScenarioPopupRect == [width |-> 120, height |-> 40]

InitCalc ==
    /\ PMInit /\ EditorInit /\ PluginInit
    /\ returned = None
    /\ \/ /\ selectionRect \in [top : SelTops, left : SelLefts,
                                width : SelWidths, height : SelHeights]
          /\ popupRect \in [width : PopupWidths, height : PopupHeights]
          /\ innerWidth \in ViewportWidths
          /\ innerHeight \in ViewportHeights
       \/ /\ selectionRect \in ScenarioSelRects
          /\ popupRect = ScenarioPopupRect
          /\ innerWidth = 1000
          /\ innerHeight = 800

\* const returned = PositionCalculator.calculate(selectionRect, popupRect)
Calculate ==
    /\ returned = None
    /\ returned' = calculate(selectionRect, popupRect)
    /\ UNCHANGED <<selectionRect, popupRect, innerWidth, innerHeight>>
    /\ UNCHANGED <<pmVars, editorVars, pluginVars>>

NextCalc == Calculate

SpecCalc == InitCalc /\ [][NextCalc]_vars

\* ---------------------------------------------------------------------
\* SpecLink: SelectionHandler.convertToLink on bounded selected texts
\* ---------------------------------------------------------------------
MaxLen == 4
LinkAlphabet == {"[", "]", "a", "b"}

TextsUpTo(n) == UNION {[1 .. k -> LinkAlphabet] : k \in 0 .. n}

\* the texts named by the specification's section 8
ScenarioTexts ==
    {<<"[", "[", "x", "]", "]">>,
     <<"[", "x", "]">>,
     <<"t", "e", "[", "x", "]", "t">>,
     <<"a", "[", "b", "]", "]", "c", "[", "[", "d">>}

InitLink ==
    /\ CalcIdle /\ PMInit /\ PluginInit
    /\ editor = "e1"
    /\ activeView = "e1"
    /\ \E t \in TextsUpTo(MaxLen) \cup ScenarioTexts :
           editorSel = [e \in Editors |-> IF e = "e1" THEN t ELSE <<>>]
    /\ replaced = <<>>

\* selectionHandler.convertToLink() on a selection that is not empty
LinkConvert ==
    /\ getSelectedText(editor) # <<>>
    /\ convertToLink
    /\ UNCHANGED <<editor, activeView, calcVars, pmVars, pluginVars>>

NextLink == LinkConvert

SpecLink == InitLink /\ [][NextLink]_vars

\* ---------------------------------------------------------------------
\* SpecPM: the methods of PopupManager called in any order
\* ---------------------------------------------------------------------
MaxRaf == 2

PMPositions ==
    {[top |-> 10, left2 |-> 20, placement |-> "top"],
     [top |-> 26, left2 |-> 34, placement |-> "bottom"]}

InitPM == CalcIdle /\ PMInit /\ EditorInit /\ PluginInit

PMCreate ==
    /\ FreeIds(PM) # {}
    /\ SetPM(create(PM))
    /\ UNCHANGED <<calcVars, editorVars, pluginVars>>

PMShow ==
    /\ Len(rafQueue) < MaxRaf
    /\ SetPM(show(PM))
    /\ UNCHANGED <<calcVars, editorVars, pluginVars>>

PMHide ==
    /\ SetPM(hide(PM))
    /\ UNCHANGED <<calcVars, editorVars, pluginVars>>

PMPosition ==
    /\ \E pos \in PMPositions : SetPM(position(PM, pos))
    /\ UNCHANGED <<calcVars, editorVars, pluginVars>>

\* one animation frame: the registered callbacks run in order
PMFrame ==
    /\ rafQueue # <<>>
    /\ SetPM([addShowClass(PM) EXCEPT !.raf = <<>>])
    /\ UNCHANGED <<calcVars, editorVars, pluginVars>>

NextPM == PMCreate \/ PMShow \/ PMHide \/ PMPosition \/ PMFrame

SpecPM == InitPM /\ [][NextPM]_vars

\* ---------------------------------------------------------------------
\* TextSelectionLinkerPlugin.  Its handlers are functions of st: pm
\* extended with the fields isProcessing and editor that they assign.
\* ---------------------------------------------------------------------
ST == [popup |-> popup, attached |-> attached, elems |-> elems, raf |-> rafQueue,
       isProcessing |-> isProcessing, editor |-> editor]

SetST(st) ==
    /\ SetPM(st)
    /\ isProcessing' = st.isProcessing
    /\ editor' = st.editor

positionPopup(st) ==
    IF getSelectionRect = None \/ getElement(st) = NoElem THEN st
    ELSE position(st, calculate(getSelectionRect, elementRect(st)))

\* showPopup without its leading hide()
showPopupNoHide(st) ==
    LET s1 == [st EXCEPT !.isProcessing = TRUE]
        s2 == show(create(s1))
    IN  [s2 EXCEPT !.raf = Append(@, "positionPopup")]

showPopup(st) ==
    LET s1 == [st EXCEPT !.isProcessing = TRUE]
        s2 == show(create(hide(s1)))
    IN  [s2 EXCEPT !.raf = Append(@, "positionPopup")]

\* checkSelection without the isProcessing guard
checkSelectionNoGuard(st) ==
    IF activeView = NoEditor THEN hide(st)
    ELSE LET bound == [st EXCEPT !.editor = activeView]
         IN  IF hasValidSelection(bound.editor)
             THEN showPopup(bound)
             ELSE hide(bound)

\* checkSelection that leaves the popup alone when the selection is invalid
checkSelectionNoHide(st) ==
    IF st.isProcessing THEN st
    ELSE IF activeView = NoEditor THEN hide(st)
    ELSE LET bound == [st EXCEPT !.editor = activeView]
         IN  IF hasValidSelection(bound.editor)
             THEN showPopup(bound)
             ELSE bound

checkSelection(st) ==
    IF st.isProcessing THEN st
    ELSE IF activeView = NoEditor THEN hide(st)
    ELSE LET bound == [st EXCEPT !.editor = activeView]
         IN  IF hasValidSelection(bound.editor)
             THEN showPopup(bound)
             ELSE hide(bound)

\* updatePopupPosition that returns, as positionPopup does, when nothing can be placed
updatePopupPositionNoHide(st) ==
    IF getSelectionRect = None \/ getElement(st) = NoElem THEN st
    ELSE position(st, calculate(getSelectionRect, elementRect(st)))

updatePopupPosition(st) ==
    IF getSelectionRect = None \/ getElement(st) = NoElem THEN hide(st)
    ELSE position(st, calculate(getSelectionRect, elementRect(st)))

handleScrollOrResize(st) ==
    IF exists(st) THEN updatePopupPosition(st) ELSE st

\* handleSelectionChange that never hides
handleSelectionChangeNoHide(st) == st

handleSelectionChange(st) ==
    IF exists(st) /\ ~hasValidSelection(st.editor) THEN hide(st) ELSE st

\* the frame callbacks where that of showPopup clears the flag only when it
\* still finds a popup
runCallbackClearsOnlyWithPopup(st, cb) ==
    IF cb = "addShowClass" THEN addShowClass(st)
    ELSE IF getElement(st) = NoElem THEN st
    ELSE [positionPopup(st) EXCEPT !.isProcessing = FALSE]

\* the two kinds of frame callback: the one of PopupManager.show and the one
\* of showPopup
runCallback(st, cb) ==
    IF cb = "addShowClass" THEN addShowClass(st)
    ELSE [positionPopup(st) EXCEPT !.isProcessing = FALSE]

RECURSIVE runCallbacks(_, _)
runCallbacks(st, q) ==
    IF q = <<>> THEN st ELSE runCallbacks(runCallback(st, Head(q)), Tail(q))

\* ---------------------------------------------------------------------
\* Spec: the plugin driven by the host, the user and the browser
\* ---------------------------------------------------------------------
MaxTimers == 2

CtlTexts == {<<>>, <<" ">>, <<"[", "a">>}
CtlSelRects ==
    {[top |-> 40, left |-> 10, width |-> 30, height |-> 4],
     [top |-> 0, left |-> 0, width |-> 30, height |-> 50]}
CtlViewports == {<<50, 40>>, <<50, 60>>}

Init ==
    /\ PMInit /\ EditorInit /\ PluginInit
    /\ selectionRect = None
    /\ popupRect = [width |-> 11, height |-> 10]
    /\ \E v \in CtlViewports : innerWidth = v[1] /\ innerHeight = v[2]
    /\ returned = None

\* the browser queues ev for the listeners registered with registerDomEvent;
\* the model lets one event wait at a time
Queue(ev) ==
    /\ pendingEvents = {}
    /\ pendingEvents' = IF loaded THEN {ev} ELSE {}

\* --- what the user, the host and the browser do ---

\* the selection of the active editor changes
SelectText ==
    /\ activeView # NoEditor
    /\ \E t \in CtlTexts \ {editorSel[activeView]} :
           editorSel' = [editorSel EXCEPT ![activeView] = t]
    /\ Queue("selectionchange")
    /\ UNCHANGED <<calcVars, pmVars, editor, activeView, replaced,
                   isProcessing, timers, loaded, dismissed>>

\* the document's selection range appears, moves or disappears
ChangeRange ==
    /\ \E r \in (CtlSelRects \cup {None}) \ {selectionRect} : selectionRect' = r
    /\ Queue("selectionchange")
    /\ UNCHANGED <<popupRect, innerWidth, innerHeight, returned, pmVars, editorVars,
                   isProcessing, timers, loaded, dismissed>>

\* scrolling moves the selection's rectangle
Scroll ==
    /\ selectionRect' \in (IF selectionRect = None THEN {None} ELSE CtlSelRects)
    /\ Queue("scroll")
    /\ UNCHANGED <<popupRect, innerWidth, innerHeight, returned, pmVars, editorVars,
                   isProcessing, timers, loaded, dismissed>>

Resize ==
    /\ \E v \in CtlViewports : innerWidth' = v[1] /\ innerHeight' = v[2]
    /\ Queue("resize")
    /\ UNCHANGED <<selectionRect, popupRect, returned, pmVars, editorVars,
                   isProcessing, timers, loaded, dismissed>>

\* --- the plugin's handlers ---

handleMouseUp ==
    /\ loaded
    /\ timers < MaxTimers
    /\ timers' = timers + 1
    /\ UNCHANGED <<calcVars, pmVars, editorVars, isProcessing, loaded, pendingEvents>>

Keys == {"Escape", "ShiftArrow", "Other"}

\* handleKeyUp whose Escape branch does not return: it hides and goes on to
\* schedule a re-check
handleKeyUpEscapeFallsThrough(key) ==
    /\ \/ /\ key = "Escape"
          /\ SetST(hide(ST))
          /\ timers < MaxTimers
          /\ timers' = timers + 1
       \/ /\ key = "ShiftArrow"
          /\ timers < MaxTimers
          /\ timers' = timers + 1
          /\ UNCHANGED <<pmVars, editor, isProcessing>>
       \/ /\ key = "Other"
          /\ UNCHANGED <<pmVars, editor, isProcessing, timers>>
    /\ UNCHANGED <<calcVars, activeView, editorSel, replaced, loaded, pendingEvents>>

handleKeyUp(key) ==
    /\ \/ /\ key = "Escape"
          /\ SetST(hide(ST))
          /\ UNCHANGED timers
       \/ /\ key = "ShiftArrow"
          /\ timers < MaxTimers
          /\ timers' = timers + 1
          /\ UNCHANGED <<pmVars, editor, isProcessing>>
       \/ /\ key = "Other"
          /\ UNCHANGED <<pmVars, editor, isProcessing, timers>>
    /\ UNCHANGED <<calcVars, activeView, editorSel, replaced, loaded, pendingEvents>>

\* a 'keyup' event reaches the listener
KeyUp ==
    /\ loaded
    /\ \E key \in Keys : handleKeyUp(key)
    /\ UNCHANGED dismissed

DispatchSelectionChange ==
    /\ loaded
    /\ "selectionchange" \in pendingEvents
    /\ pendingEvents' = pendingEvents \ {"selectionchange"}
    /\ SetST(handleSelectionChange(ST))
    /\ UNCHANGED <<calcVars, activeView, editorSel, replaced, timers, loaded, dismissed>>

DispatchScrollOrResize ==
    /\ loaded
    /\ \E ev \in pendingEvents \cap {"scroll", "resize"} :
           pendingEvents' = pendingEvents \ {ev}
    /\ SetST(handleScrollOrResize(ST))
    /\ UNCHANGED <<calcVars, activeView, editorSel, replaced, timers, loaded, dismissed>>

\* the 'active-leaf-change' listener: this.popupManager.hide()
ActiveLeafChange ==
    /\ \E v \in (Editors \cup {NoEditor}) \ {activeView} : activeView' = v
    /\ SetST(IF loaded THEN hide(ST) ELSE ST)
    /\ UNCHANGED <<calcVars, editorSel, replaced, timers, loaded, pendingEvents>>

\* a setTimeout callback of handleMouseUp or handleKeyUp fires
TimerFires ==
    /\ timers > 0
    /\ timers' = timers - 1
    /\ SetST(checkSelection(ST))
    /\ UNCHANGED <<calcVars, activeView, editorSel, replaced, loaded, pendingEvents, dismissed>>

\* one animation frame: the registered callbacks run in order
Frame ==
    /\ rafQueue # <<>>
    /\ SetST([runCallbacks(ST, rafQueue) EXCEPT !.raf = <<>>])
    /\ UNCHANGED <<calcVars, activeView, editorSel, replaced, timers, loaded, pendingEvents, dismissed>>

\* the click handler that rewrites but leaves the popup
handleConvertToLinkNoHide ==
    /\ attached # {}
    /\ convertToLink
    /\ UNCHANGED <<pmVars, editor, isProcessing>>
    /\ UNCHANGED <<calcVars, activeView, timers, loaded, pendingEvents, dismissed>>

\* a click on the button of a popup element in the document
handleConvertToLink ==
    /\ attached # {}
    /\ convertToLink
    /\ SetST(hide(ST))
    /\ UNCHANGED <<calcVars, activeView, timers, loaded, pendingEvents, dismissed>>

onunload ==
    /\ loaded
    /\ loaded' = FALSE
    /\ pendingEvents' = {}
    /\ SetST(hide(ST))
    /\ UNCHANGED <<calcVars, activeView, editorSel, replaced, timers, dismissed>>

Next ==
    \/ SelectText \/ ChangeRange \/ Scroll \/ Resize
    \/ (handleMouseUp /\ UNCHANGED dismissed) \/ KeyUp
    \/ DispatchSelectionChange \/ DispatchScrollOrResize
    \/ (ActiveLeafChange /\ UNCHANGED dismissed) \/ TimerFires \/ Frame
    \/ handleConvertToLink \/ onunload

Spec == Init /\ [][Next]_vars

\* the world of the fair specification: one viewport, one place for the
\* selection's rectangle and one delayed re-check pending at a time
FairWorld ==
    /\ innerHeight = 40
    /\ selectionRect # None => selectionRect.top = 40
    /\ timers <= 1

FairInit == Init /\ FairWorld

\* Next with the world's steps kept inside FairWorld
FairNext ==
    \/ SelectText
    \/ (ChangeRange /\ FairWorld')
    \/ (Scroll /\ FairWorld')
    \/ (Resize /\ FairWorld')
    \/ (handleMouseUp /\ FairWorld' /\ UNCHANGED dismissed)
    \/ (KeyUp /\ FairWorld')
    \/ DispatchSelectionChange \/ DispatchScrollOrResize
    \/ (ActiveLeafChange /\ UNCHANGED dismissed) \/ TimerFires \/ Frame
    \/ handleConvertToLink \/ onunload

\* the browser runs every requested animation frame
FairSpec == FairInit /\ [][FairNext]_vars /\ WF_vars(Frame)

\* --- the controller with the history of dismissals recorded ---

\* a 'keyup' event: Escape that removes a popup dismisses it, a shift+arrow
\* release is a new request for a re-check
KeyUpDismiss ==
    /\ loaded
    /\ \E key \in Keys :
           /\ handleKeyUp(key)
           /\ dismissed' = (IF key = "Escape" THEN (popup # NoElem \/ dismissed)
                            ELSE IF key = "ShiftArrow" THEN FALSE
                            ELSE dismissed)

\* a pointer release is a new request for a re-check
MouseUpDismiss == handleMouseUp /\ dismissed' = FALSE

\* a view change that removes a popup dismisses it
ActiveLeafChangeDismiss ==
    /\ ActiveLeafChange
    /\ dismissed' = ((loaded /\ popup # NoElem) \/ dismissed)

NextDismiss ==
    \/ SelectText \/ ChangeRange \/ Scroll \/ Resize
    \/ MouseUpDismiss \/ KeyUpDismiss
    \/ DispatchSelectionChange \/ DispatchScrollOrResize
    \/ ActiveLeafChangeDismiss \/ TimerFires \/ Frame
    \/ handleConvertToLink \/ onunload

SpecDismiss == Init /\ [][NextDismiss]_vars

\* ---------------------------------------------------------------------
\* Properties of PositionCalculator.calculate (SpecCalc)
\* ---------------------------------------------------------------------
Calculated == returned # None

\* overlap of the placed popup box and the selection box, touching edges counted
BoxesOverlap ==
    /\ returned.top <= Bottom(selectionRect)
    /\ returned.top + popupRect.height >= selectionRect.top
    /\ returned.left2 <= 2 * Right(selectionRect)
    /\ returned.left2 + 2 * popupRect.width >= 2 * selectionRect.left

UsedForcedFallback == hasCollision(selectionRect, firstPosition(selectionRect, popupRect), popupRect)

\* C1: the placement returned by calculate never overlaps the selection box
\* on both axes at once, the forced-safe fallback included.
C1_NoCollision == Calculated => ~BoxesOverlap

PopupFitsViewport ==
    /\ popupRect.height <= innerHeight - 2 * SCREEN_MARGIN
    /\ popupRect.width <= innerWidth - 2 * SCREEN_MARGIN

InsideMargins ==
    /\ SCREEN_MARGIN <= returned.top
    /\ returned.top + popupRect.height <= innerHeight - SCREEN_MARGIN
    /\ 2 * SCREEN_MARGIN <= returned.left2
    /\ returned.left2 + 2 * popupRect.width <= 2 * (innerWidth - SCREEN_MARGIN)

\* C2 as stated: whenever the popup fits the viewport minus the margins, the
\* returned placement keeps the popup box inside the margins on both axes,
\* for every selection rectangle.
C2_ContainedAlways == (Calculated /\ PopupFitsViewport) => InsideMargins

\* the selection is near enough to the viewport for the gap of TOTAL_OFFSET
\* to stay inside the margins: its top edge is not more than 6px below the
\* viewport's bottom edge, its bottom edge not more than 6px above the top edge
SelectionNearViewport ==
    /\ selectionRect.top - TOTAL_OFFSET <= innerHeight - SCREEN_MARGIN
    /\ Bottom(selectionRect) + TOTAL_OFFSET >= SCREEN_MARGIN

\* C2 amended: whenever the popup fits the viewport minus the margins and
\* the selection rectangle is vertically near the viewport (selectionTop - 16
\* <= viewportHeight - 10 and selectionBottom + 16 >= 10), the returned
\* placement keeps the popup box inside the margins on both axes.
C2_ContainedNearViewport ==
    (Calculated /\ PopupFitsViewport /\ SelectionNearViewport) => InsideMargins

C2_Witness ==
    /\ Calculated /\ PopupFitsViewport /\ SelectionNearViewport
    /\ UsedForcedFallback
    /\ popupRect.height > 0 /\ popupRect.width > 0

TopFits == selectionRect.top - popupRect.height - 16 >= 10
BottomFits == Bottom(selectionRect) + 16 + popupRect.height <= innerHeight - 10

\* C3: side priority.  Whenever selectionTop - popupHeight - 16 >= 10 the
\* result is side 'top' at selectionTop - popupHeight - 16, whatever space is
\* below; otherwise, whenever selectionBottom + 16 + popupHeight <=
\* viewportHeight - 10, it is side 'bottom' at selectionBottom + 16.  The two
\* scenarios give top 444 above and top 51 below.
C3_SidePriority ==
    Calculated =>
        /\ TopFits =>
             /\ returned.placement = "top"
             /\ returned.top = selectionRect.top - popupRect.height - 16
        /\ (~TopFits /\ BottomFits) =>
             /\ returned.placement = "bottom"
             /\ returned.top = Bottom(selectionRect) + 16
        /\ (selectionRect \in ScenarioSelRects /\ selectionRect.top = 500) =>
             (returned.top = 444 /\ returned.placement = "top")
        /\ (selectionRect \in ScenarioSelRects /\ selectionRect.top = 15) =>
             (returned.top = 51 /\ returned.placement = "bottom")

C3_Witness == Calculated /\ TopFits /\ BottomFits /\ returned.placement = "top"

\* C4: the returned left equals selectionLeft + selectionWidth/2 -
\* popupWidth/2 clamped into [10, viewportWidth - popupWidth - 10], and is the
\* lower bound 10 when that interval is empty; on the normal path and on the
\* forced-safe path alike.  The scenario gives left 80.
C4_HorizontalClamp ==
    Calculated =>
        LET centre2 == 2 * selectionRect.left + selectionRect.width - popupRect.width
            lo2 == 2 * 10
            hi2 == 2 * (innerWidth - popupRect.width - 10)
        IN  /\ returned.left2 =
                 IF hi2 < lo2 THEN lo2
                 ELSE IF centre2 < lo2 THEN lo2
                 ELSE IF centre2 > hi2 THEN hi2
                 ELSE centre2
            /\ selectionRect \in ScenarioSelRects => returned.left2 = 2 * 80

C4_Witness ==
    /\ Calculated /\ UsedForcedFallback
    /\ popupRect.width > innerWidth - 20
    /\ returned.left2 = 20

\* ---------------------------------------------------------------------
\* Properties of SelectionHandler.convertToLink (SpecLink)
\* ---------------------------------------------------------------------
Converted == replaced # <<>>
InputOf == replaced[2]
OutputOf == replaced[3]

Count(s, c) == Cardinality({i \in 1 .. Len(s) : s[i] = c})

\* C5: the link transform is idempotent: a text written by convertToLink,
\* selected and converted again, is written back unchanged; '[[x]]' gives
\* '[[x]]', '[x]' gives '[[x]]' and 'te[x]t' gives '[[text]]'.
C5_Idempotent ==
    Converted =>
        /\ linkedText(OutputOf) = OutputOf
        /\ InputOf = <<"[", "[", "x", "]", "]">> => OutputOf = <<"[", "[", "x", "]", "]">>
        /\ InputOf = <<"[", "x", "]">> => OutputOf = <<"[", "[", "x", "]", "]">>
        /\ InputOf = <<"t", "e", "[", "x", "]", "t">> =>
               OutputOf = <<"[", "[", "t", "e", "x", "t", "]", "]">>

\* a text that convertToLink wrote was selected and converted a second time
C5_Witness ==
    /\ Converted
    /\ InputOf = OutputOf
    /\ InputOf \notin ScenarioTexts
    /\ Len(OutputOf) > 4

\* C6: the written text has exactly two '[' and two ']', the '[' being its
\* first two characters and the ']' its last two, and between them the
\* non-bracket characters of the input in their order; 'a[b]]c[[d' gives
\* '[[abcd]]'.
C6_BracketsOnlyAtEnds ==
    Converted =>
        LET out == OutputOf
            n == Len(out)
        IN  /\ Count(out, "[") = 2 /\ Count(out, "]") = 2
            /\ n >= 4
            /\ out[1] = "[" /\ out[2] = "["
            /\ out[n - 1] = "]" /\ out[n] = "]"
            /\ SubSeq(out, 3, n - 2) = SelectSeq(InputOf, LAMBDA c : c \notin {"[", "]"})
            /\ InputOf = <<"a", "[", "b", "]", "]", "c", "[", "[", "d">> =>
                   out = <<"[", "[", "a", "b", "c", "d", "]", "]">>

\* the input mixed single and paired brackets with other characters
C6_Witness ==
    /\ Converted
    /\ Count(InputOf, "[") + Count(InputOf, "]") = 3
    /\ Len(OutputOf) = 5

\* ---------------------------------------------------------------------
\* Properties of PopupManager (SpecPM)
\* ---------------------------------------------------------------------
\* a step of create(): the manager holds another element than before
CreateStep == popup' # NoElem /\ popup' # popup

\* C9: create() destroys the element held before: when create is called
\* while an element is held and attached, afterwards the earlier element is
\* no longer attached and the manager holds only the new, detached element.
C9_CreateDestroysPrevious ==
    [][(CreateStep /\ popup # NoElem /\ popup \in attached) =>
           (popup \notin attached' /\ popup' \notin attached')]_vars

\* ---------------------------------------------------------------------
\* Properties of the plugin (Spec)
\* ---------------------------------------------------------------------
PopupExists == popup # NoElem

\* C8: at most one popup element is attached to the document, and an
\* attached popup element is the one the PopupManager holds.
C8_SingleAttachedPopup ==
    /\ Cardinality(attached) <= 1
    /\ \A i \in attached : i = popup

\* a popup was shown, clicked and removed, and a later check showed a new one
C8_Witness ==
    /\ PopupExists /\ attached = {popup}
    /\ replaced # <<>>
    /\ isProcessing

SelectionChangeDispatched ==
    /\ loaded /\ loaded'
    /\ "selectionchange" \in pendingEvents
    /\ "selectionchange" \notin pendingEvents'

\* C7: while the plugin is loaded and no selection change waits for its
\* handler, the popup exists only if the bound editor's selection is valid;
\* and a selection-changed signal that finds a popup and an invalid selection
\* leaves the popup absent.
C7_PopupOnlyWithValidSelection ==
    /\ []((loaded /\ "selectionchange" \notin pendingEvents /\ PopupExists)
              => hasValidSelection(editor))
    /\ [][(SelectionChangeDispatched /\ PopupExists /\ ~hasValidSelection(editor))
              => popup' = NoElem]_vars

\* the popup was shown, the selection then became invalid and the
\* selection-changed handler ran and removed the popup
C7_Witness ==
    /\ loaded /\ pendingEvents = {}
    /\ ~PopupExists /\ attached = {}
    /\ editor # NoEditor /\ ~hasValidSelection(editor)
    /\ rafQueue # <<>> /\ isProcessing

FrameStep == rafQueue # <<>> /\ rafQueue' = <<>>

\* C10: when the frame callback of showPopup runs while a popup is held but
\* no selection rectangle is available, the popup does not exist afterwards.
C10_PlacementWithoutRectHides ==
    [][(FrameStep /\ isProcessing /\ PopupExists /\ selectionRect = None)
           => popup' = NoElem]_vars

\* a setTimeout(checkSelection) callback ran
RecheckStep == timers' = timers - 1

\* C11 as stated: right after a delayed re-check the popup exists if and
\* only if an active editor has a valid selection, whatever state the
\* controller was in.
C11_RecheckAlwaysDecides ==
    [][RecheckStep => (popup' # NoElem <=> hasValidSelection(activeView))]_vars

\* C11 amended: a delayed re-check that runs while no show-sequence is in
\* flight (isProcessing false) leaves the popup existing if and only if an
\* active editor has a valid selection; one that runs while isProcessing is
\* true changes nothing.
C11_RecheckDecidesUnlessProcessing ==
    [][RecheckStep =>
          IF isProcessing
          THEN UNCHANGED <<pmVars, editor, isProcessing>>
          ELSE popup' # NoElem <=> hasValidSelection(activeView)]_vars

\* a re-check that found isProcessing false and a valid selection in the
\* active editor has just shown a popup, not yet placed
C11_Witness ==
    /\ PopupExists /\ isProcessing /\ timers = 0
    /\ editor = activeView /\ hasValidSelection(activeView)
    /\ elems[popup].pos = None

NonBrackets(t) == SelectSeq(t, LAMBDA c : c \notin {"[", "]"})

\* C12: a click on the popup's button replaces the bound editor's selection
\* by the link transform of the selected text and leaves the popup absent;
\* when the selected text is empty or no editor is bound the document is
\* unchanged and the popup is still hidden.
C12_ClickRewritesThenHides ==
    [][handleConvertToLink =>
          /\ popup' = NoElem /\ attached' = {}
          /\ IF editor = NoEditor \/ getSelectedText(editor) = <<>>
             THEN UNCHANGED <<editorSel, replaced>>
             ELSE /\ replaced' = <<editor, editorSel[editor],
                                   <<"[", "[">> \o NonBrackets(editorSel[editor]) \o <<"]", "]">> >>
                  /\ \A e \in Editors \ {editor} : editorSel'[e] = editorSel[e]]_vars

\* the click rewrote '[a' to '[[a]]' and the popup is gone
C12_Witness ==
    /\ replaced # <<>>
    /\ replaced[2] = <<"[", "a">>
    /\ replaced[3] = <<"[", "[", "a", "]", "]">>
    /\ ~PopupExists /\ attached = {}

\* C13: a key release of Escape leaves the popup absent, changes neither the
\* document text nor isProcessing and schedules no re-check; an active-view
\* change handled by the plugin leaves the popup absent.
C13_EscapeAndViewChangeHide ==
    /\ [][(loaded /\ handleKeyUp("Escape")) =>
              /\ popup' = NoElem /\ attached' = {}
              /\ UNCHANGED <<editorSel, replaced, isProcessing, timers>>]_vars
    /\ [][(loaded /\ activeView' # activeView) => (popup' = NoElem /\ attached' = {})]_vars

\* the popup was removed while its show-sequence was still in flight
C13_Witness ==
    /\ loaded /\ ~PopupExists /\ attached = {}
    /\ isProcessing /\ rafQueue # <<>>
    /\ editor = activeView /\ hasValidSelection(editor)
    /\ pendingEvents = {}

\* C14: a scroll or resize signal never creates a popup: with no popup it
\* changes nothing; with a popup and a selection rectangle the popup's applied
\* top, left and side afterwards are those of PositionCalculator.calculate for
\* the current selection and popup rectangles; with a popup and no selection
\* rectangle the popup is hidden.
C14_ScrollResizeRepositions ==
    [][DispatchScrollOrResize =>
          IF popup = NoElem
          THEN UNCHANGED <<pmVars, editorVars, isProcessing, timers>>
          ELSE IF selectionRect = None
          THEN popup' = NoElem /\ attached' = {}
          ELSE /\ popup' = popup /\ attached' = attached /\ popup \in attached
               /\ elems'[popup].pos = calculate(selectionRect, popupRect)]_vars

\* a placed popup whose position a scroll or resize handler recomputed with
\* the forced-safe fallback
C14_Witness ==
    /\ PopupExists /\ ~isProcessing /\ pendingEvents = {}
    /\ selectionRect # None
    /\ elems[popup].show
    /\ elems[popup].pos = forceSafePosition(selectionRect, popupRect)
    /\ hasCollision(selectionRect, firstPosition(selectionRect, popupRect), popupRect)

\* C15: hide leaves the manager holding no element and the element it held
\* detached from the document; hide, show and position called while no
\* element is held change nothing.
C15_Lifecycle ==
    /\ [][PMHide => (popup' = NoElem /\ popup \notin attached')]_vars
    /\ [][(popup = NoElem /\ (PMHide \/ PMShow \/ PMPosition)) => UNCHANGED pmVars]_vars

\* after create, show, hide: nothing held, nothing attached, the frame
\* callback of show still to run
C15_Witness ==
    /\ popup = NoElem /\ attached = {}
    /\ rafQueue # <<>>

PendingPlacements == Cardinality({i \in 1 .. Len(rafQueue) : rafQueue[i] = "positionPopup"})

\* C16: isProcessing is set exactly while the frame callback of showPopup is
\* pending, at most one such callback is pending, and between showPopup and
\* that callback no step starts a show-sequence or creates a popup.
C16_NoReentrantShow ==
    /\ [](PendingPlacements <= 1 /\ (isProcessing <=> PendingPlacements = 1))
    /\ [][(isProcessing /\ ~FrameStep) =>
              /\ isProcessing'
              /\ rafQueue' = rafQueue
              /\ popup' \in {popup, NoElem}]_vars

\* a show-sequence is in flight, its popup was hidden, and the active editor
\* has a valid selection: a re-check here would show a popup but for the guard
C16_Witness ==
    /\ isProcessing /\ PendingPlacements = 1
    /\ ~PopupExists
    /\ activeView # NoEditor /\ hasValidSelection(activeView)
    /\ timers > 0

\* C17: every show-sequence eventually clears isProcessing, provided the
\* requested animation frame eventually runs, whatever signals arrive first;
\* and when a hide removed the popup before the frame, the frame callbacks
\* create, attach and position nothing and leave the popup absent.
C17_ShowSequenceCompletes ==
    /\ isProcessing ~> ~isProcessing
    /\ [][FrameStep => ~isProcessing']_vars
    /\ [][(FrameStep /\ popup = NoElem) =>
              (popup' = NoElem /\ attached' = attached /\ elems' = elems)]_vars

\* both frame callbacks of a show-sequence are pending and a click on the
\* popup has removed it in between
C17_Witness ==
    /\ isProcessing /\ Len(rafQueue) = 2
    /\ ~PopupExists /\ attached = {}
    /\ replaced # <<>>

Vertical == calculateVerticalPosition(selectionRect, popupRect)

\* C18: when neither the above placement nor the below placement fits,
\* calculateVerticalPosition chooses side 'top' exactly when selectionTop - 10
\* >= viewportHeight - selectionBottom - 10 (a tie goes to 'top') with top =
\* max(10, selectionTop - popupHeight - 16), and otherwise side 'bottom' with
\* top = min(viewportHeight - popupHeight - 10, selectionBottom + 16).  The
\* result of calculate is that choice unless the forced-safe fallback replaced it.
C18_NeitherFitsChoice ==
    (Calculated /\ ~TopFits /\ ~BottomFits) =>
        /\ IF selectionRect.top - 10 >= innerHeight - Bottom(selectionRect) - 10
           THEN /\ Vertical.placement = "top"
                /\ Vertical.top = Max(10, selectionRect.top - popupRect.height - 16)
           ELSE /\ Vertical.placement = "bottom"
                /\ Vertical.top = Min(innerHeight - popupRect.height - 10,
                                      Bottom(selectionRect) + 16)
        /\ ~UsedForcedFallback =>
               (returned.top = Vertical.top /\ returned.placement = Vertical.placement)

\* a tie between the space above and the space below, resolved to 'top' and
\* returned by calculate
C18_Witness ==
    /\ Calculated /\ ~TopFits /\ ~BottomFits
    /\ selectionRect.top - 10 = innerHeight - Bottom(selectionRect) - 10
    /\ ~UsedForcedFallback
    /\ returned.placement = "top"

\* C19: the side returned by calculate agrees with the geometry it returns:
\* side 'top' means the popup box lies entirely above the selection, side
\* 'bottom' means it lies entirely below it.
C19_SideAgreesWithGeometry ==
    Calculated =>
        /\ returned.placement = "top" =>
               returned.top + popupRect.height <= selectionRect.top
        /\ returned.placement = "bottom" =>
               returned.top >= Bottom(selectionRect)

\* C20: once onunload has run no popup exists in any later state.
C20_NoPopupAfterUnload ==
    ~loaded => (popup = NoElem /\ attached = {})

\* C21: a hide caused by Escape or by a view change is not undone by stale
\* work: after such a hide the popup stays absent until a new pointer release
\* or shift+arrow key release, even when a delayed re-check scheduled before
\* the hide fires after it.  Stated for the loaded plugin.
C21_DismissedStaysHidden ==
    (loaded /\ dismissed) => (popup = NoElem /\ attached = {})

====
